---- MODULE Spec2Model ----
(***************************************************************************)
(* The sandboxed task-dispatch layer: validate_path and security_check of  *)
(* tasksB.py, the handlers they wrap, filter_csv, and the /run and /read   *)
(* endpoints of server.py.                                                 *)
(*                                                                         *)
(* A Python string is a sequence of tokens.  The token "/" is os.path.sep; *)
(* every other token is a run of characters holding no separator, so that  *)
(* startswith, split, replace and `in` act on the sequence the way they    *)
(* act on the characters.                                                  *)
(***************************************************************************)
EXTENDS Integers, Sequences, FiniteSets, TLC

VARIABLES
    cwd,       \* os.getcwd() of the process
    files,     \* the regular files: location -> contents
    dirs,      \* the directories
    task,      \* the description a client keeps submitting to /run
    last,      \* the call served last and what it did
    nreq,      \* calls served so far
    ninvoked   \* handler bodies entered so far (what a spy would count)

vars == <<cwd, files, dirs, task, last, nreq, ninvoked>>

\* ------------------------------------------------------------------ bounds
MaxLen == 4
MaxTaskLen == 3
MaxCalls == 2

\* ----------------------------------------------------------------- strings
Sep == "/"

Alphabet == {"/", "..", "data", "_evil", "x"}

Strings(n) == UNION {[1..k -> Alphabet] : k \in 0..n}

StartsWith(s, prefix) ==
    /\ Len(s) >= Len(prefix)
    /\ SubSeq(s, 1, Len(prefix)) = prefix

EndsWith(s, suffix) ==
    /\ Len(s) >= Len(suffix)
    /\ SubSeq(s, Len(s) - Len(suffix) + 1, Len(s)) = suffix

Contains(s, tok) == \E i \in 1..Len(s) : s[i] = tok

\* str.split('/')
RECURSIVE Split(_)
Split(s) ==
    IF ~Contains(s, Sep) THEN <<s>>
    ELSE LET i == CHOOSE k \in 1..Len(s) :
                      s[k] = Sep /\ \A j \in 1..(k - 1) : s[j] # Sep
         IN  <<SubSeq(s, 1, i - 1)>> \o Split(SubSeq(s, i + 1, Len(s)))

\* '/'.join(comps)
RECURSIVE Join(_)
Join(comps) ==
    IF Len(comps) = 0 THEN <<>>
    ELSE IF Len(comps) = 1 THEN comps[1]
    ELSE comps[1] \o <<Sep>> \o Join(Tail(comps))

\* ------------------------------------------------------------ posixpath
isabs(s) == StartsWith(s, <<Sep>>)

\* os.path.join(a, b)
pathjoin(a, b) ==
    IF isabs(b) THEN b
    ELSE IF a = <<>> \/ EndsWith(a, <<Sep>>) THEN a \o b
    ELSE a \o <<Sep>> \o b

\* posixpath.normpath keeps exactly two leading slashes and folds any other
\* number into one.
InitialSlashes(path) ==
    IF ~isabs(path) THEN 0
    ELSE IF StartsWith(path, <<Sep, Sep>>) /\ ~StartsWith(path, <<Sep, Sep, Sep>>)
         THEN 2
    ELSE 1

\* The loop of normpath over the components, new_comps being the stack.
RECURSIVE NormComps(_, _, _)
NormComps(comps, new_comps, slashes) ==
    IF Len(comps) = 0 THEN new_comps
    ELSE LET comp == Head(comps)
             rest == Tail(comps)
         IN  IF comp = <<>> \/ comp = <<".">> THEN
                 NormComps(rest, new_comps, slashes)
             ELSE IF \/ comp # <<"..">>
                     \/ (slashes = 0 /\ Len(new_comps) = 0)
                     \/ (Len(new_comps) > 0 /\ new_comps[Len(new_comps)] = <<"..">>)
                  THEN NormComps(rest, Append(new_comps, comp), slashes)
             ELSE IF Len(new_comps) > 0
                  THEN NormComps(rest, SubSeq(new_comps, 1, Len(new_comps) - 1), slashes)
             ELSE NormComps(rest, new_comps, slashes)

normpath(path) ==
    IF path = <<>> THEN <<".">>
    ELSE LET slashes == InitialSlashes(path)
             joined  == Join(NormComps(Split(path), <<>>, slashes))
             out     == [i \in 1..slashes |-> Sep] \o joined
         IN  IF out = <<>> THEN <<".">> ELSE out

abspath(path) ==
    normpath(IF isabs(path) THEN path ELSE pathjoin(cwd, path))

\* ------------------------------------------------------------- PathGuard
DataDirLiteral == <<"/", "data">>

validate_path(filepath) ==
    LET abs_path == abspath(filepath)
        data_dir == abspath(DataDirLiteral)
    IN  StartsWith(abs_path, data_dir)

\* ------------------------------------------------------------ file system
\* A location is the sequence of names from the root; files maps the
\* locations of the regular files to their contents, dirs holds the
\* locations of the directories other than the root.
RootLoc == <<>>

IsFile(f, loc) == loc \in DOMAIN f

IsDir(d, loc) == loc = RootLoc \/ loc \in d

Parent(loc) == IF loc = RootLoc THEN RootLoc ELSE SubSeq(loc, 1, Len(loc) - 1)

CwdLoc == NormComps(Split(cwd), <<>>, 1)

Failed(e) == [err |-> e, loc |-> RootLoc]

\* The kernel's walk over the components of a path name.
RECURSIVE WalkFrom(_, _, _, _)
WalkFrom(f, d, cur, comps) ==
    IF Len(comps) = 0 THEN [err |-> "ok", loc |-> cur]
    ELSE LET c == Head(comps)
         IN  IF c = <<>> THEN WalkFrom(f, d, cur, Tail(comps))
             ELSE IF IsFile(f, cur) THEN Failed("ENOTDIR")
             ELSE IF ~IsDir(d, cur) THEN Failed("ENOENT")
             ELSE IF c = <<".">> THEN WalkFrom(f, d, cur, Tail(comps))
             ELSE IF c = <<"..">> THEN WalkFrom(f, d, Parent(cur), Tail(comps))
             ELSE WalkFrom(f, d, Append(cur, c), Tail(comps))

Resolve(f, d, path) ==
    IF path = <<>> THEN Failed("ENOENT")
    ELSE LET r == WalkFrom(f, d, IF isabs(path) THEN RootLoc ELSE CwdLoc, Split(path))
         IN  IF r.err = "ok" /\ EndsWith(path, <<Sep>>) /\ ~IsDir(d, r.loc)
             THEN Failed(IF IsFile(f, r.loc) THEN "ENOTDIR" ELSE "ENOENT")
             ELSE r

\* open(path, 'r'): the error, or "ok" with the contents.
OpenRead(f, d, path) ==
    LET r == Resolve(f, d, path)
    IN  IF r.err # "ok" THEN [err |-> r.err, content |-> "none"]
        ELSE IF IsFile(f, r.loc) THEN [err |-> "ok", content |-> f[r.loc]]
        ELSE IF IsDir(d, r.loc) THEN [err |-> "EISDIR", content |-> "none"]
        ELSE [err |-> "ENOENT", content |-> "none"]

Put(f, loc, content) ==
    [l \in (DOMAIN f) \cup {loc} |-> IF l = loc THEN content ELSE f[l]]

\* open(path, 'w') followed by write(content): the error, or "ok" and the
\* files after it.
OpenWrite(f, d, path, content) ==
    LET r == Resolve(f, d, path)
    IN  IF r.err # "ok" THEN [err |-> r.err, files |-> f]
        ELSE IF IsDir(d, r.loc) THEN [err |-> "EISDIR", files |-> f]
        ELSE [err |-> "ok", files |-> Put(f, r.loc, content)]

\* os.path.dirname
RECURSIVE RStripSep(_)
RStripSep(s) ==
    IF Len(s) > 0 /\ s[Len(s)] = Sep THEN RStripSep(SubSeq(s, 1, Len(s) - 1)) ELSE s

dirname(p) ==
    LET idx  == IF Contains(p, Sep)
                THEN CHOOSE k \in 1..Len(p) :
                         p[k] = Sep /\ \A j \in (k + 1)..Len(p) : p[j] # Sep
                ELSE 0
        head == SubSeq(p, 1, idx)
    IN  IF head # <<>> /\ RStripSep(head) # <<>> THEN RStripSep(head) ELSE head

\* os.makedirs(name, exist_ok=True): the error, or "ok" and the directories
\* after it.  Components that are missing are created on the way.
RECURSIVE MakeFrom(_, _, _, _)
MakeFrom(f, d, cur, comps) ==
    IF IsFile(f, cur) THEN [err |-> "EEXIST", dirs |-> d]
    ELSE LET d1 == IF IsDir(d, cur) THEN d ELSE d \cup {cur}
         IN  IF Len(comps) = 0 THEN [err |-> "ok", dirs |-> d1]
             ELSE LET c == Head(comps)
                  IN  IF c = <<>> \/ c = <<".">> THEN MakeFrom(f, d1, cur, Tail(comps))
                      ELSE IF c = <<"..">> THEN MakeFrom(f, d1, Parent(cur), Tail(comps))
                      ELSE MakeFrom(f, d1, Append(cur, c), Tail(comps))

makedirs(f, d, name) ==
    IF name = <<>> THEN [err |-> "ENOENT", dirs |-> d]
    ELSE MakeFrom(f, d, IF isabs(name) THEN RootLoc ELSE CwdLoc, Split(name))

\* str.replace(old, new)
RECURSIVE Replace(_, _, _)
Replace(s, old, new) ==
    IF Len(s) < Len(old) THEN s
    ELSE IF StartsWith(s, old)
         THEN new \o Replace(SubSeq(s, Len(old) + 1, Len(s)), old, new)
    ELSE <<Head(s)>> \o Replace(Tail(s), old, new)

\* ---------------------------------------------------------- values, state
StrArg(s) == [t |-> "str", v |-> s]
NoneArg == [t |-> "none", v |-> <<>>]

CwdChoices == {<<"/">>, <<"/", "app">>, <<"/", "data">>}

\* last.ext is what the libraries outside the repository did in the call
\* ("none" when the call reached none); last.entered lists the handler bodies the call entered,
\* last.checked the arguments security_check passed to validate_path, and
\* last.selfcheck tells whether the handler called validate_path itself.
NoCall == [op |-> "none", args |-> <<>>, ext |-> "none", result |-> "none",
           payload |-> "none", entered |-> <<>>, checked |-> {},
           selfcheck |-> FALSE]

\* ensure_data_dir: os.makedirs(d, exist_ok=True) for the three relative
\* directories, in order.
EnsureDataDir(f, d) ==
    LET d1 == makedirs(f, d, <<"data">>).dirs
        d2 == makedirs(f, d1, <<"data", "/", "docs">>).dirs
    IN  makedirs(f, d2, <<"data", "/", "logs">>).dirs

\* ------------------------------------------------------- SecurityWrapper
\* The arguments the loop of wrapper looks at: isinstance(arg, str) and
\* os.path.sep in arg.  args holds the positional arguments followed by the
\* keyword values.
PathBearing(args) ==
    {i \in 1..Len(args) : args[i].t = "str" /\ Contains(args[i].v, Sep)}

\* security_check, had the loop looked at the first argument alone.
security_check_first_only(h, args, out) ==
    LET bearing == PathBearing(args) \cap {1}
        bad     == {i \in bearing : ~validate_path(args[i].v)}
    IN  IF bad # {}
        THEN [result |-> "PermissionError", payload |-> "none",
              files |-> files, dirs |-> dirs, entered |-> <<>>,
              checked |-> {args[i].v : i \in bearing}]
        ELSE [result |-> out.result, payload |-> out.payload,
              files |-> out.files, dirs |-> out.dirs, entered |-> <<h>>,
              checked |-> {args[i].v : i \in bearing}]

security_check(h, args, out) ==
    LET bearing == PathBearing(args)
        bad     == {i \in bearing : ~validate_path(args[i].v)}
        first   == CHOOSE i \in bad : \A j \in bad : i <= j
    IN  IF bad # {}
        THEN [result |-> "PermissionError", payload |-> "none",
              files |-> files, dirs |-> dirs, entered |-> <<>>,
              checked |-> {args[i].v : i \in {j \in bearing : j <= first}}]
        ELSE [result |-> out.result, payload |-> out.payload,
              files |-> out.files, dirs |-> out.dirs, entered |-> <<h>>,
              checked |-> {args[i].v : i \in bearing}]

Outcome(f, d, result, payload) ==
    [files |-> f, dirs |-> d, result |-> result, payload |-> payload]

\* --------------------------------------------------------------- handlers
\* ext is what the libraries outside the repository do in the call: "ok",
\* or "fail" when one of them raises (a missing module, a network or decoding
\* error).  Every body catches Exception and returns its failure value.
fetch_api_data_body(url, save_path, ext, text) ==
    IF ext # "ok" THEN Outcome(files, dirs, "False", "none")
    ELSE LET m == makedirs(files, dirs, dirname(save_path))
             w == OpenWrite(files, m.dirs, save_path, text)
         IN  IF m.err # "ok" THEN Outcome(files, m.dirs, "False", "none")
             ELSE IF w.err # "ok" THEN Outcome(files, m.dirs, "False", "none")
             ELSE Outcome(w.files, m.dirs, "True", text)

Exists(f, d, path) ==
    LET r == Resolve(f, d, path)
    IN  r.err = "ok" /\ (IsFile(f, r.loc) \/ IsDir(d, r.loc))

git_operations_body(repo_url, local_path, commit_message, ext) ==
    IF ext # "ok" THEN Outcome(files, dirs, "False", "none")
    ELSE IF ~Exists(files, dirs, local_path)
         THEN LET m == makedirs(files, dirs, local_path)
              IN  IF m.err # "ok" THEN Outcome(files, m.dirs, "False", "none")
                  ELSE Outcome(files, m.dirs, "True", "none")
    ELSE IF IsFile(files, Resolve(files, dirs, local_path).loc)
         THEN Outcome(files, dirs, "False", "none")
    ELSE Outcome(files, dirs, "True", "none")

\* sqlite3.connect and duckdb.connect create the database file when it is
\* missing; ext = "fail" is a query that raises after the connection.
run_sql_query_body(db_path, query, output_path, ext) ==
    IF ext = "noimport" THEN Outcome(files, dirs, "None", "none")
    ELSE LET r  == OpenRead(files, dirs, db_path)
             c  == OpenWrite(files, dirs, db_path, "db")
             f1 == IF r.err = "ok" THEN files ELSE c.files
             w1 == OpenWrite(f1, dirs, output_path, "rows")
         IN  IF (r.err # "ok" /\ c.err # "ok") \/ ext # "ok" \/ w1.err # "ok"
             THEN Outcome(f1, dirs, "None", "none")
             ELSE Outcome(w1.files, dirs, "rows", "rows")

scrape_website_body(url, output_path, ext) ==
    IF ext # "ok" THEN Outcome(files, dirs, "False", "none")
    ELSE LET w == OpenWrite(files, dirs, output_path, "html")
         IN  IF w.err # "ok" THEN Outcome(files, dirs, "False", "none")
             ELSE Outcome(w.files, dirs, "True", "html")

\* The shape shared by process_image, transcribe_audio and convert_markdown:
\* read the input file, run the library, write the output file.
ReadThenWrite(in_path, output_path, ext, content) ==
    LET r == OpenRead(files, dirs, in_path)
        w == OpenWrite(files, dirs, output_path, content)
    IN  IF ext # "ok" \/ r.err # "ok" \/ w.err # "ok"
        THEN Outcome(files, dirs, "False", "none")
        ELSE Outcome(w.files, dirs, "True", content)

process_image_body(image_path, output_path, ext) ==
    ReadThenWrite(image_path, output_path, ext, "image")

transcribe_audio_body(audio_path, output_path, ext) ==
    ReadThenWrite(audio_path, output_path, ext, "transcript")

convert_markdown_body(md_path, output_path, ext) ==
    ReadThenWrite(md_path, output_path, ext, "html")

\* ------------------------------------------------------ sample arguments
P_in   == <<"/", "data", "/", "in">>
P_out  == <<"/", "data", "/", "out">>
P_etc  == <<"/", "etc", "/", "passwd">>
P_sib  == <<"/", "data", "_evil", "/", "out">>
P_trav == <<"/", "data", "/", "..", "/", "etc", "/", "passwd">>
P_rel  == <<"data", "/", "out">>
P_bare == <<"out">>

OutSamples == {P_out, P_etc, P_sib, P_bare}
InSamples == {P_in, P_etc}
ReadSamples == {P_in, P_out, P_etc, P_trav, P_rel}

UrlSamples == {<<"http:", "/", "/", "api", "/", "v1">>, <<"http:api">>}

Texts == {"t1"}
Ext == {"ok", "fail"}

Served(entered) ==
    /\ nreq' = nreq + 1
    /\ ninvoked' = ninvoked + Len(entered)

\* A direct call of a decorated handler of tasksB.
Wrapped(h, args, ext, out) ==
    \E r \in {security_check(h, args, out)} :
        /\ last' = [op |-> h, args |-> args,
                    ext |-> IF r.entered = <<>> THEN "none" ELSE ext,
                    result |-> r.result,
                    payload |-> r.payload, entered |-> r.entered,
                    checked |-> r.checked, selfcheck |-> FALSE]
        /\ files' = r.files
        /\ dirs' = r.dirs
        /\ Served(r.entered)
        /\ UNCHANGED <<cwd, task>>

FetchApiData ==
    /\ nreq < MaxCalls
    /\ \E url \in UrlSamples, save_path \in OutSamples, ext \in Ext, text \in Texts :
          Wrapped("fetch_api_data", <<StrArg(url), StrArg(save_path)>>, ext,
                  fetch_api_data_body(url, save_path, ext, text))

GitOperations ==
    /\ nreq < MaxCalls
    /\ \E repo_url \in UrlSamples, local_path \in OutSamples, ext \in Ext,
          commit_message \in {NoneArg, StrArg(<<"msg">>)} :
          Wrapped("git_operations",
                  <<StrArg(repo_url), StrArg(local_path), commit_message>>, ext,
                  git_operations_body(repo_url, local_path, commit_message, ext))

RunSqlQuery ==
    /\ nreq < MaxCalls
    /\ \E db_path \in InSamples, output_path \in OutSamples,
          ext \in Ext \cup {"noimport"} :
          Wrapped("run_sql_query",
                  <<StrArg(db_path), StrArg(<<"SELECT">>), StrArg(output_path)>>, ext,
                  run_sql_query_body(db_path, <<"SELECT">>, output_path, ext))

ScrapeWebsite ==
    /\ nreq < MaxCalls
    /\ \E url \in UrlSamples, output_path \in OutSamples, ext \in Ext :
          Wrapped("scrape_website", <<StrArg(url), StrArg(output_path)>>, ext,
                  scrape_website_body(url, output_path, ext))

ProcessImage ==
    /\ nreq < MaxCalls
    /\ \E image_path \in InSamples, output_path \in OutSamples, ext \in Ext :
          Wrapped("process_image", <<StrArg(image_path), StrArg(output_path)>>, ext,
                  process_image_body(image_path, output_path, ext))

TranscribeAudio ==
    /\ nreq < MaxCalls
    /\ \E audio_path \in InSamples, output_path \in OutSamples, ext \in Ext :
          Wrapped("transcribe_audio", <<StrArg(audio_path), StrArg(output_path)>>, ext,
                  transcribe_audio_body(audio_path, output_path, ext))

ConvertMarkdown ==
    /\ nreq < MaxCalls
    /\ \E md_path \in InSamples, output_path \in OutSamples, ext \in Ext :
          Wrapped("convert_markdown", <<StrArg(md_path), StrArg(output_path)>>, ext,
                  convert_markdown_body(md_path, output_path, ext))

\* ------------------------------------------------------------- filter_csv
\* The Flask route: not decorated; it calls validate_path itself.  ext =
\* "fail" is a filter rule that raises (a column the frame does not have).
filter_csv(csv_path, ext) ==
    LET r == OpenRead(files, dirs, csv_path)
    IN  IF ~validate_path(csv_path) THEN [result |-> "403", payload |-> "none"]
        ELSE IF r.err # "ok" \/ ext # "ok" THEN [result |-> "500", payload |-> "none"]
        ELSE [result |-> "200", payload |-> r.content]

FilterCsv ==
    /\ nreq < MaxCalls
    /\ \E csv_path \in ReadSamples, ext \in Ext :
          \E r \in {filter_csv(csv_path, ext)} :
              /\ last' = [op |-> "filter_csv", args |-> <<StrArg(csv_path)>>,
                          ext |-> ext,
                          result |-> r.result, payload |-> r.payload,
                          entered |-> <<"filter_csv">>, checked |-> {},
                          selfcheck |-> TRUE]
              /\ Served(<<"filter_csv">>)
              /\ UNCHANGED <<cwd, files, dirs, task>>

\* -------------------------------------------------------------- read_file
read_file(path) ==
    LET relative_path == Replace(path, <<"/", "data", "/">>, <<"data", "/">>)
        r == OpenRead(files, dirs, relative_path)
    IN  IF r.err = "ok" THEN [result |-> "200", payload |-> r.content]
        ELSE IF r.err = "ENOENT" THEN [result |-> "404", payload |-> "none"]
        ELSE [result |-> "500", payload |-> "none"]

ReadFile ==
    /\ nreq < MaxCalls
    /\ \E path \in ReadSamples :
          \E r \in {read_file(path)} :
              /\ last' = [op |-> "read_file", args |-> <<StrArg(path)>>,
                          ext |-> "ok",
                          result |-> r.result, payload |-> r.payload,
                          entered |-> <<>>, checked |-> {}, selfcheck |-> FALSE]
              /\ Served(<<>>)
              /\ UNCHANGED <<cwd, files, dirs, task>>

\* ------------------------------------------------------------------ Spec
\* The state after startup_event: the host's /etc/passwd and /data/in, and
\* the directories ensure_data_dir makes under the working directory.
InitFiles ==
    (<<<<"etc">>, <<"passwd">>>> :> "secret") @@ (<<<<"data">>, <<"in">>>> :> "t0")

InitDirs == {<<<<"etc">>>>, <<<<"data">>>>}

Init ==
    /\ cwd \in CwdChoices
    /\ files = InitFiles
    /\ dirs = EnsureDataDir(InitFiles, (InitDirs \cup {CwdLoc}) \ {RootLoc})
    /\ task = <<>>
    /\ last = NoCall
    /\ nreq = 0
    /\ ninvoked = 0

Next ==
    \/ FetchApiData
    \/ GitOperations
    \/ RunSqlQuery
    \/ ScrapeWebsite
    \/ ProcessImage
    \/ TranscribeAudio
    \/ ConvertMarkdown
    \/ FilterCsv
    \/ ReadFile

Spec == Init /\ [][Next]_vars

\* --------------------------------------------------------------- run_task
\* The if/elif chain of run_task, top to bottom: the handler of tasksA each
\* branch calls, the substrings its condition requires, and whether the
\* envelope carries the handler's return value.  The token "Install uv"
\* stands for the marker of the first branch, which quotes uv in backquotes.
OperationRegistry == <<
    [name |-> "A1",  markers |-> {"Install uv"}, returnsResult |-> TRUE],
    [name |-> "A2",  markers |-> {"format.md"}, returnsResult |-> FALSE],
    [name |-> "A3",  markers |-> {"dates.txt", "dates-wednesdays.txt"},
     returnsResult |-> FALSE],
    [name |-> "A4",  markers |-> {"contacts.json", "contacts-sorted.json"},
     returnsResult |-> FALSE],
    [name |-> "A5",  markers |-> {"logs-recent.txt"}, returnsResult |-> FALSE],
    [name |-> "A6",  markers |-> {"docs/index.json"}, returnsResult |-> FALSE],
    [name |-> "A7",  markers |-> {"email.txt", "email-sender.txt"},
     returnsResult |-> FALSE],
    [name |-> "A8",  markers |-> {"credit_card.png", "credit-card.txt"},
     returnsResult |-> FALSE],
    [name |-> "A9",  markers |-> {"comments.txt", "comments-similar.txt"},
     returnsResult |-> FALSE],
    [name |-> "A10", markers |-> {"ticket-sales.db", "ticket-sales-gold.txt"},
     returnsResult |-> FALSE] >>

\* A description is a sequence of tokens: the markers, a blank, and a word
\* that is part of no marker.  No marker is a substring of another or of a
\* concatenation of the others, so `marker in task` is membership.
Markers == UNION {OperationRegistry[i].markers : i \in 1..Len(OperationRegistry)}

Blank == " "

TaskTokens == Markers \cup {Blank, "please"}

TaskStrings(n) == UNION {[1..k -> TaskTokens] : k \in 0..n}

\* str.strip()
RECURSIVE LStrip(_)
LStrip(s) == IF Len(s) > 0 /\ Head(s) = Blank THEN LStrip(Tail(s)) ELSE s

RECURSIVE RStrip(_)
RStrip(s) ==
    IF Len(s) > 0 /\ s[Len(s)] = Blank THEN RStrip(SubSeq(s, 1, Len(s) - 1)) ELSE s

Strip(s) == RStrip(LStrip(s))

\* Matches, had the conditions been joined by `or`.
Matches_any(i, t) == \E m \in OperationRegistry[i].markers : Contains(t, m)

\* The condition of branch i: every marker `in task`.
Matches(i, t) == \A m \in OperationRegistry[i].markers : Contains(t, m)

\* The handler of branch i is called: ext is what that function of tasksA
\* does, "ok" when it returns and "fail" when it raises.  The except clause
\* turns the exception e into HTTPException(400, detail=str(e)).
Envelope(i, ext) ==
    IF ext = "ok"
    THEN [result |-> "success",
          payload |-> IF OperationRegistry[i].returnsResult THEN "result" ELSE "none",
          entered |-> <<OperationRegistry[i].name>>]
    ELSE [result |-> "HTTPException(400)", payload |-> "str(e)",
          entered |-> <<OperationRegistry[i].name>>]

\* The else branch raises HTTPException(400, "Unknown task") inside the try;
\* the except clause catches it and raises the 400 anew.
Unknown ==
    [result |-> "HTTPException(400)", payload |-> "str(e)", entered |-> <<>>]

Hits(t) == {i \in 1..Len(OperationRegistry) : Matches(i, t)}

\* run_task without the try/except around the chain.
run_task_uncaught(query_task, ext) ==
    LET hits  == Hits(Strip(query_task))
        first == CHOOSE i \in hits : \A j \in hits : i <= j
    IN  IF hits = {} THEN Unknown
        ELSE IF ext = "ok" THEN Envelope(first, ext)
        ELSE [Envelope(first, ext) EXCEPT !.result = "Exception"]

\* run_task, had the chain been tested bottom to top.
run_task_last_match(query_task, ext) ==
    LET hits == Hits(Strip(query_task))
        lst  == CHOOSE i \in hits : \A j \in hits : i >= j
    IN  IF hits = {} THEN Unknown ELSE Envelope(lst, ext)

\* run_task, had it answered a repeated request from the previous answer.
run_task_cached(query_task, ext) ==
    LET hits  == Hits(Strip(query_task))
        first == CHOOSE i \in hits : \A j \in hits : i <= j
    IN  IF hits = {} THEN Unknown
        ELSE IF last.op = "run_task"
        THEN [result |-> last.result, payload |-> last.payload, entered |-> <<>>]
        ELSE Envelope(first, ext)

\* The chain inside the try block: the first branch whose condition holds
\* runs, and the else branch when none does.
run_task(query_task, ext) ==
    LET hits  == Hits(Strip(query_task))
        first == CHOOSE i \in hits : \A j \in hits : i <= j
    IN  IF hits = {} THEN Unknown ELSE Envelope(first, ext)

RunTask ==
    /\ nreq < MaxCalls
    /\ \E ext \in Ext :
          \E r \in {run_task(task, ext)} :
              /\ last' = [op |-> "run_task", args |-> <<StrArg(task)>>,
                          ext |-> IF r.entered = <<>> THEN "none" ELSE ext,
                          result |-> r.result, payload |-> r.payload,
                          entered |-> r.entered, checked |-> {},
                          selfcheck |-> FALSE]
              /\ Served(r.entered)
              /\ UNCHANGED <<cwd, files, dirs, task>>

\* A client that submits one description, again and again.
InitDispatch ==
    /\ cwd = <<"/", "app">>
    /\ files = InitFiles
    /\ dirs = EnsureDataDir(InitFiles, (InitDirs \cup {CwdLoc}) \ {RootLoc})
    /\ task \in TaskStrings(MaxTaskLen)
    /\ last = NoCall
    /\ nreq = 0
    /\ ninvoked = 0

NextDispatch == RunTask

SpecDispatch == InitDispatch /\ [][NextDispatch]_vars

\* --------------------------------------------------- the guard on its own
\* The path is drawn by InitPath; the action applies validate_path to it.
ValidatePath ==
    /\ last.op = "input"
    /\ last' = [last EXCEPT !.op = "validate_path",
                            !.result = IF validate_path(last.args[1].v)
                                       THEN "True" ELSE "False"]
    /\ UNCHANGED <<cwd, files, dirs, task, nreq, ninvoked>>

InitPath ==
    /\ cwd \in CwdChoices
    /\ files = InitFiles
    /\ dirs = InitDirs
    /\ task = <<>>
    /\ \E p \in Strings(MaxLen) :
          last = [NoCall EXCEPT !.op = "input", !.args = <<StrArg(p)>>]
    /\ nreq = 0
    /\ ninvoked = 0

NextPath == ValidatePath

SpecPath == InitPath /\ [][NextPath]_vars

\* ================================================================ claims
WrappedHandlers ==
    {"fetch_api_data", "git_operations", "run_sql_query", "scrape_website",
     "process_image", "transcribe_audio", "convert_markdown"}

\* The canonical absolute form of p is the sandbox root or lies under it.
CanonicalInside(p) ==
    \/ abspath(p) = DataDirLiteral
    \/ StartsWith(abspath(p), DataDirLiteral \o <<Sep>>)

\* Operation i accepts a description: all its markers occur in it.
Accepts(i, t) == \A m \in OperationRegistry[i].markers : \E k \in 1..Len(t) : t[k] = m

Accepting(t) == {i \in 1..Len(OperationRegistry) : Accepts(i, t)}

\* C1: validate_path(P) is true exactly when the canonical absolute form of P
\* is the sandbox root or a descendant of it.
C1_GuardIffCanonicalInside ==
    last.op = "validate_path" =>
        ((last.result = "True") <=> CanonicalInside(last.args[1].v))

\* C2: a call of a decorated handler in which some string argument holding a
\* separator fails validate_path ends in PermissionError, enters no handler
\* body and changes neither files nor directories.
C2_RejectedCallHasNoEffect ==
    [][\/ last'.op \notin WrappedHandlers
       \/ (/\ last'.result = "PermissionError"
           /\ last'.entered = <<>>
           /\ ninvoked' = ninvoked
           /\ files' = files
           /\ dirs' = dirs)
       \/ \A i \in 1..Len(last'.args) :
             \/ last'.args[i].t # "str"
             \/ \A k \in 1..Len(last'.args[i].v) : last'.args[i].v[k] # Sep
             \/ validate_path(last'.args[i].v)]_vars

\* C2 witness: after an earlier call wrote a file, a call whose first
\* argument passes the guard and whose second does not was rejected.
C2_Witness ==
    /\ last.op = "process_image"
    /\ last.args[1].v = P_in
    /\ last.args[2].v = P_etc
    /\ last.result = "PermissionError"
    /\ nreq = 2
    /\ files # InitFiles

\* C3: a handler body runs only after security_check has checked every
\* path-bearing argument of the call, and no handler checks paths itself.
C3_EveryHandlerGated ==
    last.entered # <<>> =>
        /\ ~last.selfcheck
        /\ \A i \in PathBearing(last.args) : last.args[i].v \in last.checked

C5_ReadFileGuarded ==
    last.op = "read_file" =>
        LET path == last.args[1].v
            r    == OpenRead(files, dirs, path)
        IN  /\ ~validate_path(path) => last.result = "403"
            /\ (validate_path(path) /\ r.err = "ENOENT") => last.result = "404"
            /\ last.result = "200" =>
                  (validate_path(path) /\ r.err = "ok" /\ last.payload = r.content)

\* C6: fetch_api_data with a save path inside the sandbox is let through to
\* its body and writes the fetched text there whenever the fetch itself
\* works, and read_file of a path inside the sandbox returns exactly what the
\* file at that path holds.
C6_RoundTrip ==
    /\ (last.op = "fetch_api_data" /\ CanonicalInside(last.args[2].v))
       => (/\ last.entered = <<"fetch_api_data">>
           /\ last.ext = "ok" =>
                 (/\ last.result = "True"
                  /\ OpenRead(files, dirs, last.args[2].v).content = last.payload))
    /\ (/\ last.op = "read_file"
        /\ CanonicalInside(last.args[1].v)
        /\ OpenRead(files, dirs, last.args[1].v).err = "ok")
       => (/\ last.result = "200"
           /\ last.payload = OpenRead(files, dirs, last.args[1].v).content)

\* C7: a direct call of transcribe_audio ends in NotImplementedError.
C7_TranscribeNotImplemented ==
    last.op = "transcribe_audio" => last.result = "NotImplementedError"

\* C8 as stated: every description holding both dates.txt and
\* dates-wednesdays.txt runs A3 and nothing else, with status=success when A3
\* returns.
C8_DatesAlwaysRunA3 ==
    (/\ last.op = "run_task"
     /\ \E k \in 1..Len(task) : task[k] = "dates.txt"
     /\ \E k \in 1..Len(task) : task[k] = "dates-wednesdays.txt")
    => (/\ last.entered = <<"A3">>
        /\ last.ext = "ok" => last.result = "success")

\* C8 amended: the same, for the descriptions that hold neither the marker of
\* A1 nor format.md.
C8_DatesRunA3UnlessEarlierMatch ==
    (/\ last.op = "run_task"
     /\ \E k \in 1..Len(task) : task[k] = "dates.txt"
     /\ \E k \in 1..Len(task) : task[k] = "dates-wednesdays.txt"
     /\ \A k \in 1..Len(task) : task[k] \notin {"Install uv", "format.md"})
    => (/\ last.entered = <<"A3">>
        /\ last.ext = "ok" => last.result = "success")

\* C8 witness: such a description, with a later marker beside the two, ran A3
\* and came back with status=success.
C8_Witness ==
    /\ last.op = "run_task"
    /\ task = <<"dates.txt", "logs-recent.txt", "dates-wednesdays.txt">>
    /\ last.entered = <<"A3">>
    /\ last.result = "success"

\* C9: run_task enters the handler of the earliest operation that accepts the
\* description and no other, and enters none when no operation accepts it.
C9_FirstMatchWins ==
    last.op = "run_task" =>
        /\ Accepting(task) = {} => last.entered = <<>>
        /\ \A i \in Accepting(task) :
              (\A j \in Accepting(task) : i <= j)
                  => last.entered = <<OperationRegistry[i].name>>

\* C9 witness: A2 and A3 both accept the description and A2 alone ran.
C9_Witness ==
    /\ last.op = "run_task"
    /\ Accepting(task) = {2, 3}
    /\ last.entered = <<"A2">>

\* C10: dispatching the description again enters the same handler as the
\* dispatch before it, enters it once more, and leaves the working directory
\* the guard resolves against as it was.
C10_DispatchIsStateless ==
    [][(last.op = "run_task" /\ last'.op = "run_task")
       => (/\ last'.entered = last.entered
           /\ ninvoked' = ninvoked + (IF Accepting(task) = {} THEN 0 ELSE 1)
           /\ cwd' = cwd
           /\ task' = task)]_vars

\* C10 witness: the second dispatch of a description A3 accepts has entered
\* A3 for the second time.
C10_Witness ==
    /\ last.op = "run_task"
    /\ nreq = 2
    /\ ninvoked = 2
    /\ last.entered = <<"A3">>

====
